---- MODULE Spec2Model ----
(***************************************************************************)
(* Model of src/main.py: the file-name extractor, the roster lookup, the   *)
(* rename planner and the batch loop of rename_word_files, with the        *)
(* /rename request handler in front of it.                                 *)
(*                                                                         *)
(* A string is a sequence of Unicode code points (naturals), so that the   *)
(* character classes of the regular expressions (\d, \s, [\u4e00-\u9fff])  *)
(* are computed the way the code computes them.                            *)
(***************************************************************************)
EXTENDS Naturals, Sequences, FiniteSets

(***************************************************************************)
(* Strings                                                                 *)
(***************************************************************************)
MinOf(S) == CHOOSE x \in S : \A y \in S : x <= y

MaxOf(S) == CHOOSE x \in S : \A y \in S : y <= x

\* \d of a str pattern: the ASCII and the full-width decimal digits
IsDigit(c) == c \in (48..57) \cup (65296..65305)

\* \s of a str pattern and the characters str.strip() removes
IsSpace(c) ==
    c \in (9..13) \cup (28..32) \cup {133, 160, 5760} \cup (8192..8202)
            \cup {8232, 8233, 8239, 8287, 12288}

\* [^\d\s] and [^\s\d]
IsNameChar(c) == ~IsDigit(c) /\ ~IsSpace(c)

\* [^\d\s+]
IsNameCharNoPlus(c) == IsNameChar(c) /\ c # 43

\* [\u4e00-\u9fff]
IsChinese(c) == c \in 19968..40959

\* . of a pattern compiled without DOTALL
IsDot(c) == c # 10

\* s[i:j] on 1-based positions: the characters i .. j-1
Slice(s, i, j) == SubSeq(s, i, j - 1)

\* word in s
Contains(s, word) ==
    \E i \in 1..(Len(s) + 1) :
        /\ i + Len(word) - 1 <= Len(s)
        /\ Slice(s, i, i + Len(word)) = word

\* s.endswith(t)
EndsWith(s, t) ==
    /\ Len(t) <= Len(s)
    /\ SubSeq(s, Len(s) - Len(t) + 1, Len(s)) = t

\* whether character c is in a class of the patterns
InClass(c, class) ==
    CASE class = "digit" -> IsDigit(c)
      [] class = "space" -> IsSpace(c)
      [] class = "name" -> IsNameChar(c)
      [] class = "noplus" -> IsNameCharNoPlus(c)
      [] class = "chinese" -> IsChinese(c)
      [] class = "dot" -> IsDot(c)

\* where a greedy run of the class that starts at position i ends: the
\* first position >= i past the end of s or not in the class
RunEnd(s, i, class) ==
    CHOOSE j \in i..(Len(s) + 1) :
        /\ j = Len(s) + 1 \/ ~InClass(s[j], class)
        /\ \A k \in i..(j - 1) : InClass(s[k], class)

\* str.strip()
Strip(s) ==
    LET keep == {i \in 1..Len(s) : ~IsSpace(s[i])}
    IN  IF keep = {} THEN <<>> ELSE SubSeq(s, MinOf(keep), MaxOf(keep))

\* the list of characters clean_filename replaces: < > : " / \ | ? *
illegal_chars == <<60, 62, 58, 34, 47, 92, 124, 63, 42>>

clean_filename(filename) ==
    LET bad == {illegal_chars[k] : k \in 1..Len(illegal_chars)}
        replaced == [i \in 1..Len(filename) |->
                        IF filename[i] \in bad THEN 95 ELSE filename[i]]
    IN  Strip(replaced)

\* str(counter) of a positive integer
RECURSIVE Decimal(_)
Decimal(n) ==
    IF n < 10 THEN <<48 + n>>
    ELSE Append(Decimal(n \div 10), 48 + (n % 10))

\* os.path.splitext(filename)[0]: the last dot splits, unless only dots
\* come before it
SplitextRoot(filename) ==
    LET dots == {i \in 1..Len(filename) : filename[i] = 46}
        last == MaxOf(dots)
    IN  IF dots = {} THEN filename
        ELSE IF \E j \in 1..(last - 1) : filename[j] # 46
             THEN Slice(filename, 1, last)
             ELSE filename

\* PurePath.suffix: from the last dot, unless the dot is the first or the
\* last character of the name
PathSuffix(name) ==
    LET dots == {i \in 1..Len(name) : name[i] = 46}
        last == MaxOf(dots)
    IN  IF dots = {} THEN <<>>
        ELSE IF 1 < last /\ last < Len(name)
             THEN SubSeq(name, last, Len(name))
             ELSE <<>>

(***************************************************************************)
(* extract_name_from_filename: the seven patterns, in order.  Each         *)
(* operator is re.findall(pattern, name_part): the list of the group's     *)
(* matches, found left to right, each at the first alternative the         *)
(* backtracking search reaches (greedy {2,4} longest first, lazy .*?       *)
(* shortest first).                                                        *)
(***************************************************************************)

\* 1. ^\d+\s+([^\s\d]+)\s+
Pattern1(s) ==
    LET d == RunEnd(s, 1, "digit")
        w == RunEnd(s, d, "space")
        g == RunEnd(s, w, "name")
    IN  IF d > 1 /\ w > d /\ g > w /\ g <= Len(s) /\ IsSpace(s[g])
        THEN <<Slice(s, w, g)>>
        ELSE <<>>

\* the lengths n in 2..4 for which s[i .. i+n-1] is a run of [^\d\s] and
\* the rest of the pattern matches at i+n, a position in after
GroupLens(s, i, after) ==
    {n \in 2..4 :
        /\ i + n - 1 <= Len(s)
        /\ \A k \in i..(i + n - 1) : IsNameChar(s[k])
        /\ i + n \in after}

\* 2. ^\d+\s+.*?([^\d\s]{2,4})(?:\d+|第)
Pattern2(s) ==
    LET d == RunEnd(s, 1, "digit")
        w == RunEnd(s, d, "space")
        after == {j \in 1..Len(s) : IsDigit(s[j]) \/ s[j] = 31532}
        starts == {p \in w..RunEnd(s, w, "dot") : GroupLens(s, p, after) # {}}
        p0 == MinOf(starts)
    IN  IF d > 1 /\ w > d /\ starts # {}
        THEN <<Slice(s, p0, p0 + MaxOf(GroupLens(s, p0, after)))>>
        ELSE <<>>

\* 3. ^\d+\s+.*?班\s+([^\s\d]+)\s+\d+        (班 is 29677)
Pattern3(s) ==
    LET d == RunEnd(s, 1, "digit")
        w == RunEnd(s, d, "space")
        NameFrom(p) == RunEnd(s, p + 1, "space")
        NameTo(p) == RunEnd(s, NameFrom(p), "name")
        NumFrom(p) == RunEnd(s, NameTo(p), "space")
        starts == {p \in w..RunEnd(s, w, "dot") :
                     /\ p <= Len(s)
                     /\ s[p] = 29677
                     /\ NameFrom(p) > p + 1
                     /\ NameTo(p) > NameFrom(p)
                     /\ NumFrom(p) > NameTo(p)
                     /\ NumFrom(p) <= Len(s)
                     /\ IsDigit(s[NumFrom(p)])}
        p0 == MinOf(starts)
    IN  IF d > 1 /\ w > d /\ starts # {}
        THEN <<Slice(s, NameFrom(p0), NameTo(p0))>>
        ELSE <<>>

\* 4. ^\d+([^\d\s+]{2,4})
Pattern4(s) ==
    LET d == RunEnd(s, 1, "digit")
        e == RunEnd(s, d, "noplus")
    IN  IF d > 1 /\ e - d >= 2
        THEN <<Slice(s, d, IF e - d > 4 THEN d + 4 ELSE e)>>
        ELSE <<>>

\* 5. ^([^\d\s]{2,4})\s*\+?\s*\d+            (+ is 43)
Pattern5(s) ==
    LET Rest(j) ==
            LET a == RunEnd(s, j, "space")
                b == IF a <= Len(s) /\ s[a] = 43
                     THEN RunEnd(s, a + 1, "space") ELSE a
            IN  b <= Len(s) /\ IsDigit(s[b])
        lens == GroupLens(s, 1, {j \in 3..5 : j <= Len(s) /\ Rest(j)})
    IN  IF lens # {} THEN <<Slice(s, 1, 1 + MaxOf(lens))>> ELSE <<>>

\* 6. 班([^\d\s]{2,4})(?:\d+|\s|第), scanned from position pos
RECURSIVE Pattern6From(_, _)
Pattern6From(s, pos) ==
    LET Rest(j) ==
            j <= Len(s) /\ (IsDigit(s[j]) \/ IsSpace(s[j]) \/ s[j] = 31532)
        lens == GroupLens(s, pos + 1, {j \in (pos + 3)..(pos + 5) : Rest(j)})
        stop == pos + 1 + MaxOf(lens)
        end == IF IsDigit(s[stop]) THEN RunEnd(s, stop, "digit") ELSE stop + 1
    IN  IF pos > Len(s) THEN <<>>
        ELSE IF s[pos] = 29677 /\ lens # {}
             THEN <<Slice(s, pos + 1, stop)>> \o Pattern6From(s, end)
             ELSE Pattern6From(s, pos + 1)

Pattern6(s) == Pattern6From(s, 1)

\* 7. ([^\d\s]{2,4})(?=\s|\d|第|实验|\+), scanned from position pos
RECURSIVE Pattern7From(_, _)
Pattern7From(s, pos) ==
    LET Rest(j) ==
            /\ j <= Len(s)
            /\ \/ IsSpace(s[j])
               \/ IsDigit(s[j])
               \/ s[j] = 31532
               \/ (j + 1 <= Len(s) /\ s[j] = 23454 /\ s[j + 1] = 39564)
               \/ s[j] = 43
        lens == GroupLens(s, pos, {j \in (pos + 2)..(pos + 4) : Rest(j)})
        end == pos + MaxOf(lens)
    IN  IF pos > Len(s) THEN <<>>
        ELSE IF lens # {}
             THEN <<Slice(s, pos, end)>> \o Pattern7From(s, end)
             ELSE Pattern7From(s, pos + 1)

Pattern7(s) == Pattern7From(s, 1)

\* re.findall(r'[\u4e00-\u9fff]{2,4}', name_part), scanned from position pos
RECURSIVE ChineseGroupsFrom(_, _)
ChineseGroupsFrom(s, pos) ==
    LET e == RunEnd(s, pos, "chinese")
        end == IF e - pos > 4 THEN pos + 4 ELSE e
    IN  IF pos > Len(s) THEN <<>>
        ELSE IF e - pos >= 2
             THEN <<Slice(s, pos, end)>> \o ChineseGroupsFrom(s, end)
             ELSE ChineseGroupsFrom(s, pos + 1)

chinese_groups(s) == ChineseGroupsFrom(s, 1)

(***************************************************************************)
(* The vocabulary the extractor filters out                               *)
(***************************************************************************)
W_ji == <<32423>>                                   \* 级
W_ban == <<29677>>                                  \* 班
W_shiyan == <<23454, 39564>>                        \* 实验
W_baogao == <<25253, 21578>>                        \* 报告
W_kecheng == <<35838, 31243>>                       \* 课程
W_jisuanji == <<35745, 31639, 26426>>               \* 计算机
W_gongcheng == <<24037, 31243>>                     \* 工程
W_zhuanshengben == <<19987, 21319, 26412>>          \* 专升本
W_dianziban == <<30005, 23376, 29256>>              \* 电子版
W_yunjisuan == <<20113, 35745, 31639>>              \* 云计算
W_xinban == <<26032, 29256>>                        \* 新版

\* the "not in [...]" list of the pattern loop
PatternExactWords ==
    { W_ji \o W_jisuanji \o W_gongcheng \o W_zhuanshengben,
      W_jisuanji \o W_gongcheng \o W_zhuanshengben,
      W_shiyan, W_kecheng, W_baogao, W_dianziban, W_yunjisuan, W_xinban }

\* the "any(word in potential_name ...)" list of the pattern loop
PatternContainWords ==
    { W_ji, W_ban, W_shiyan, W_baogao, W_kecheng, W_jisuanji, W_gongcheng,
      W_zhuanshengben }

\* exclude_words of the fallback
exclude_words ==
    { W_ji \o W_jisuanji \o W_gongcheng \o W_zhuanshengben,
      W_jisuanji \o W_gongcheng \o W_zhuanshengben,
      W_shiyan \o W_baogao, W_kecheng \o W_shiyan,
      W_dianziban, W_yunjisuan, W_xinban }

\* the "any(word in char_group ...)" list of the fallback
FallbackContainWords ==
    { W_ji, W_ban, W_shiyan, W_baogao, W_kecheng, W_jisuanji, W_gongcheng }

\* the condition under which the pattern loop returns a match
PatternAccepts(match) ==
    LET potential_name == Strip(match)
    IN  /\ Len(potential_name) >= 2
        /\ ~(\A k \in 1..Len(potential_name) : IsDigit(potential_name[k]))
        /\ potential_name \notin PatternExactWords
        /\ ~\E word \in PatternContainWords : Contains(potential_name, word)

\* the condition under which the fallback returns a character group
FallbackAccepts(char_group) ==
    /\ 2 <= Len(char_group)
    /\ Len(char_group) <= 4
    /\ char_group \notin exclude_words
    /\ ~\E word \in FallbackContainWords : Contains(char_group, word)

\* None and the empty string are both false in "if not extracted_name"
None == <<>>

\* "return" inside a loop: the value returned if there is one, and what
\* the code after it returns otherwise
OrElse(returned, otherwise) ==
    IF returned # None THEN returned ELSE otherwise

\* the matches of one pattern, filtered: the first accepted match,
\* stripped, or None
FirstAcceptedMatch(matches) ==
    LET accepted == {k \in 1..Len(matches) : PatternAccepts(matches[k])}
    IN  IF accepted = {} THEN None ELSE Strip(matches[MinOf(accepted)])

\* the fallback's groups, filtered: the first accepted group, or None
FirstAcceptedGroup(groups) ==
    LET accepted == {k \in 1..Len(groups) : FallbackAccepts(groups[k])}
    IN  IF accepted = {} THEN None ELSE groups[MinOf(accepted)]

\* re.findall(patterns[i - 1], name_part)
PatternMatches(i, name_part) ==
    CASE i = 1 -> Pattern1(name_part)
      [] i = 2 -> Pattern2(name_part)
      [] i = 3 -> Pattern3(name_part)
      [] i = 4 -> Pattern4(name_part)
      [] i = 5 -> Pattern5(name_part)
      [] i = 6 -> Pattern6(name_part)
      [] i = 7 -> Pattern7(name_part)

\* the for loop over the patterns, from pattern i on: the first accepted
\* match of the first pattern that has one
RECURSIVE PatternLoop(_, _)
PatternLoop(i, name_part) ==
    IF i > 7 THEN None
    ELSE OrElse(FirstAcceptedMatch(PatternMatches(i, name_part)),
                PatternLoop(i + 1, name_part))

\* the function after name_part is computed: the pattern loop, then the
\* fallback over the groups of Chinese characters
ExtractedFromPart(name_part) ==
    OrElse(PatternLoop(1, name_part),
           FirstAcceptedGroup(chinese_groups(name_part)))

extract_name_from_filename(filename) ==
    ExtractedFromPart(SplitextRoot(filename))

(***************************************************************************)
(* find_student_info.  The roster df is the sequence of the rows of        *)
(* df_students, each a record [name, id] (the columns 姓名 and 学号).      *)
(***************************************************************************)
\* re.sub(r'[^一-鿿]', '', s)
OnlyChinese(s) == SelectSeq(s, IsChinese)

\* the rows the first loop (exact match) accepts
ExactRows(name, df) ==
    {k \in 1..Len(df) : Strip(df[k].name) = name}

\* the rows the second loop (containment, either way) accepts
ContainRows(name, df) ==
    {k \in 1..Len(df) :
        \/ Contains(Strip(df[k].name), name)
        \/ Contains(name, Strip(df[k].name))}

\* the rows the third loop (equal after keeping the Chinese characters)
\* accepts; the loop runs only if cleaning changed the name
CleanedRows(name, df) ==
    LET cleaned_name == OnlyChinese(name)
    IN  IF cleaned_name # <<>> /\ cleaned_name # name
        THEN {k \in 1..Len(df) :
                 cleaned_name = OnlyChinese(Strip(df[k].name))}
        ELSE {}

\* mutant: one loop over the roster that tries both tests on each row
FoundRowInterleaved(raw_name, df) ==
    LET name == Strip(raw_name)
        rows == ExactRows(name, df) \cup ContainRows(name, df)
    IN  IF rows # {} THEN MinOf(rows)
        ELSE IF CleanedRows(name, df) # {} THEN MinOf(CleanedRows(name, df))
        ELSE 0

\* the row find_student_info returns, 0 for (None, None): each loop runs
\* over the whole roster before the next one starts
FoundRow(raw_name, df) ==
    LET name == Strip(raw_name)
    IN  IF ExactRows(name, df) # {} THEN MinOf(ExactRows(name, df))
        ELSE IF ContainRows(name, df) # {} THEN MinOf(ContainRows(name, df))
        ELSE IF CleanedRows(name, df) # {} THEN MinOf(CleanedRows(name, df))
        ELSE 0

find_student_info(raw_name, df) ==
    LET k == FoundRow(raw_name, df)
    IN  IF k = 0 THEN [name |-> None, id |-> None]
        ELSE [name |-> Strip(df[k].name), id |-> Strip(df[k].id)]

(***************************************************************************)
(* The rename planner of rename_word_files.  A directory is a function     *)
(* from the names present in it to the identity (inode) of the file.       *)
(***************************************************************************)
\* " 实验（训）报告【电子版】-", the fixed middle of every target name
ReportInfix ==
    <<32, 23454, 39564, 65288, 35757, 65289, 25253, 21578, 12304, 30005,
      23376, 29256, 12305, 45>>

\* mutant: the target name without the fixed middle
TargetFilenameNoInfix(student, name_format, suffix) ==
    clean_filename(student.id \o <<32>> \o student.name \o <<32>>
                       \o name_format \o suffix)

\* target_filename
TargetFilename(student, name_format, suffix) ==
    clean_filename(student.id \o <<32>> \o student.name \o ReportInfix
                       \o name_format \o suffix)

\* final_filename for a value of counter
NumberedFilename(student, name_format, suffix, counter) ==
    clean_filename(student.id \o <<32>> \o student.name \o ReportInfix
                       \o name_format \o <<40>> \o Decimal(counter) \o <<41>>)
        \o suffix

\* Path.exists() of a name of the folder
Exists(dir, name) == name \in DOMAIN dir

\* Path.samefile() of two existing names of the folder
SameFile(dir, a, b) == dir[a] = dir[b]

\* mutant: the counter is not advanced past the names that exist
FreeCounterNoLoop(dir, student, name_format, suffix, counter) == counter

\* the while loop: the value of counter that produced final_filename
RECURSIVE FreeCounter(_, _, _, _, _)
FreeCounter(dir, student, name_format, suffix, counter) ==
    IF Exists(dir, NumberedFilename(student, name_format, suffix, counter))
    THEN FreeCounter(dir, student, name_format, suffix, counter + 1)
    ELSE counter

\* the branch "target exists and is another file"
Collides(dir, target_filename, word_file) ==
    Exists(dir, target_filename) /\ ~SameFile(dir, target_filename, word_file)

\* mutant: the branch for the file that has its name already is missing
AlreadyNamedNever(dir, target_filename, word_file) == FALSE

\* the branch "target exists and is this very file"
AlreadyNamed(dir, target_filename, word_file) ==
    Exists(dir, target_filename) /\ SameFile(dir, target_filename, word_file)

\* final_filename
FinalFilename(dir, word_file, student, name_format) ==
    LET suffix == PathSuffix(word_file)
        target_filename == TargetFilename(student, name_format, suffix)
    IN  IF Collides(dir, target_filename, word_file)
        THEN NumberedFilename(student, name_format, suffix,
                 FreeCounter(dir, student, name_format, suffix, 1))
        ELSE target_filename

\* Path.rename(): the file leaves old and is found under new
Renamed(dir, old, new) ==
    [n \in (DOMAIN dir \ {old}) \cup {new} |->
        IF n = new THEN dir[old] ELSE dir[n]]

\* "未处理", the value of "new" of every outcome but a success
NotProcessed == <<26410, 22788, 29702>>

\* an outcome that leaves the file alone
Skipped(word_file, status) ==
    [original |-> word_file, new |-> NotProcessed, status |-> status]

\* what the iteration for word_file extracts and finds: the name, and the
\* row of the roster (0 when none was found or none was looked for)
LookedUp(extracted_name, df) ==
    [extracted |-> extracted_name,
     row |-> IF extracted_name = None THEN 0
             ELSE FoundRow(extracted_name, df)]

Lookup(word_file, df) ==
    LookedUp(extract_name_from_filename(word_file), df)

\* the outcome of the iteration for word_file when nothing raises
Planned(dir, word_file, look, df, name_format) ==
    LET extracted_name == look.extracted
        student == IF look.row = 0 THEN [name |-> None, id |-> None]
                   ELSE find_student_info(extracted_name, df)
        target_filename ==
            TargetFilename(student, name_format, PathSuffix(word_file))
    IN  IF extracted_name = None THEN Skipped(word_file, "NoNameExtracted")
        ELSE IF student.name = None \/ student.id = None
             THEN Skipped(word_file, "NoStudentFound")
        ELSE IF AlreadyNamed(dir, target_filename, word_file)
             THEN Skipped(word_file, "AlreadyCorrect")
        ELSE [original |-> word_file,
              new |-> FinalFilename(dir, word_file, student, name_format),
              status |-> "Success"]

\* the outcome appended, given what the environment does to the iteration:
\* "none", "rename" (Path.rename raises, caught by the inner handler) or
\* "raise" (an exception before the rename, caught by the outer handler)
Outcome(planned, fault) ==
    IF fault = "raise" THEN Skipped(planned.original, "ProcessingError")
    ELSE IF fault = "rename" /\ planned.status = "Success"
         THEN Skipped(planned.original, "RenameFailed")
    ELSE planned

(***************************************************************************)
(* Bounds and the values the inputs are drawn from                         *)
(***************************************************************************)
\* the number of files in the folder when the first request arrives
MaxFiles == 3

\* the number of /rename requests
MaxRuns == 2

\* the number of iterations of one batch in which something raises
MaxFaults == 1

S_id == <<50, 48, 50, 52, 52, 49, 48, 53, 48, 54, 49, 48>>  \* 202441050610
S_docx == <<46, 100, 111, 99, 120>>                         \* .docx
S_doc == <<46, 100, 111, 99>>                               \* .doc
S_wxm == <<29579, 23567, 26126>>                            \* 王小明
S_luanxie == <<20081, 20889>>                               \* 乱写
S_shiyanjiu == <<23454, 39564, 20061>>                      \* 实验九

R_wxm == [name |-> S_wxm, id |-> S_id]
R_luanxie == [name |-> S_luanxie, id |-> <<50, 48, 50, 52>>]

\* the rosters of the batch runs: empty, one student, and a second student
\* whose name is part of a file name
Rosters ==
    { <<>>, <<R_wxm>>, <<R_luanxie, R_wxm>> }

NameFormats == { S_shiyanjiu }

\* the names a folder is made of
FilePool ==
    << S_id \o <<32>> \o S_wxm \o S_docx,            \* 202441050610 王小明.docx
       S_id \o S_wxm \o S_docx,                      \* 202441050610王小明.docx
       S_id \o <<32>> \o S_wxm \o ReportInfix \o S_shiyanjiu \o S_docx,
       <<38543, 20415>> \o S_luanxie \o S_docx,      \* 随便乱写.docx
       <<49>> \o S_doc,                              \* 1.doc
       <<97, 46, 116, 120, 116>> >>                  \* a.txt

\* the folders of at most MaxFiles files: every file has its own identity
InitialDirs ==
    {[n \in {FilePool[k] : k \in ks} |->
         CHOOSE k \in ks : FilePool[k] = n] :
       ks \in {x \in SUBSET (1..Len(FilePool)) : Cardinality(x) <= MaxFiles}}

\* the orders in which Path.glob may yield the names of S
Orders(S) ==
    {s \in [1..Cardinality(S) -> S] :
        \A i, j \in 1..Cardinality(S) : i # j => s[i] # s[j]}

\* word_files: the *.docx names in any order, then the *.doc names
Listings(dir) ==
    {a \o b : a \in Orders({n \in DOMAIN dir : EndsWith(n, S_docx)}),
              b \in Orders({n \in DOMAIN dir : EndsWith(n, S_doc)})}

\* the outcomes that report an exception
FaultStatuses == {"RenameFailed", "ProcessingError"}

(***************************************************************************)
(* The inputs of the lookup specification                                  *)
(***************************************************************************)
\* the length of a generated file name, without its extension
MaxLen == 3

\* the number of rows of a generated roster
MaxRoster == 2

SeqsUpTo(S, n) == UNION {[1..k -> S] : k \in 0..n}

\* file names over 王, 小 and the digit 1, and the names of the examples
LookupFiles ==
    {s \o S_docx : s \in SeqsUpTo({29579, 23567, 49}, MaxLen) \ {<<>>}}
        \cup { FilePool[1],
               <<38543, 20415>> \o S_luanxie \o S_docx,        \* 随便乱写.docx
               W_zhuanshengben \o S_docx,                      \* 专升本.docx
               W_dianziban \o <<26412>> \o S_docx,             \* 电子版本.docx
               S_wxm \o S_doc,                                 \* 王小明.doc
               <<29579, 43, 23567, 49>> \o S_docx }            \* 王+小1.docx

\* rows: 王, 王小 twice (with two ids), an empty name, and the examples
LookupStudents ==
    { [name |-> <<29579>>, id |-> <<49>>],
      [name |-> <<29579, 23567>>, id |-> <<50>>],
      [name |-> <<29579, 23567>>, id |-> <<51>>],
      [name |-> <<>>, id |-> <<53>>],
      R_wxm, R_luanxie }

LookupRosters == SeqsUpTo(LookupStudents, MaxRoster)

\* 实验九, and 九:1 with a character clean_filename replaces
LookupFormats == { S_shiyanjiu, <<20061, 58, 49>> }

\* the values of match_strategies
StrategyLists ==
    { <<"exact_name", "partial_name">>, <<"partial_id", "exact_name">> }

\* what the environment may do to the next iteration: nothing, make
\* Path.rename raise (when the iteration gets that far), or make an
\* earlier statement of the iteration raise; at most MaxFaults iterations
\* of a batch raise
Faults(outcomes, planned) ==
    LET raised == {k \in 1..Len(outcomes) : outcomes[k].status \in FaultStatuses}
    IN  IF Cardinality(raised) >= MaxFaults THEN {"none"}
        ELSE IF planned.status = "Success" THEN {"none", "rename", "raise"}
        ELSE {"none", "raise"}

(***************************************************************************)
(* State                                                                   *)
(***************************************************************************)
VARIABLES
    dir,            \* the folder: name -> file identity
    roster,         \* df_students, as read from the Excel file
    name_format,    \* the request's name_format
    match_strategies, \* the request's match_strategies, which no code reads
    pc,             \* "idle": no request in progress; "loop": in the for loop
    word_files,     \* the listing taken before the loop
    idx,            \* the position of the loop in word_files
    results,        \* the outcomes appended so far
    lookups,        \* per outcome, what the iteration extracted and found
    success_count,
    response,       \* the last response returned
    runs,           \* the number of requests received
    renames,        \* the number of times the current batch changed the folder
    batches,        \* the number of batches that have returned their report
    dir0,           \* the folder when the current batch started
    faulted         \* whether an iteration has raised since the first request

vars ==
    <<dir, roster, name_format, match_strategies, pc, word_files, idx, results,
      lookups, success_count, response, runs, renames, batches, dir0,
      faulted>>

\* the entry of lookups for an iteration that raised before it looked
NoLookup == [extracted |-> None, row |-> 0]

\* no response has been returned to the request in progress
NoResponse == [success |-> FALSE, message |-> "Pending"]

\* the state before the first request, but for the inputs
Fresh ==
    /\ pc = "idle"
    /\ word_files = <<>>
    /\ idx = 1
    /\ results = <<>>
    /\ lookups = <<>>
    /\ success_count = 0
    /\ response = NoResponse
    /\ renames = 0
    /\ batches = 0
    /\ dir0 = dir
    /\ faulted = FALSE

Init ==
    /\ dir \in InitialDirs
    /\ roster \in Rosters
    /\ name_format \in NameFormats
    /\ match_strategies = <<"exact_name", "partial_name">>
    /\ runs = 0
    /\ Fresh

(***************************************************************************)
(* Actions                                                                 *)
(***************************************************************************)
\* rename_files and the head of rename_word_files return an error before
\* the folder is listed: a field is missing, the Excel file or the folder
\* does not exist, the Excel sheet has fewer than 3 columns
Rejections == {"MissingField", "NoExcelFile", "NoFolder", "ExcelTooNarrow"}

RequestRejected ==
    /\ pc = "idle"
    /\ runs < MaxRuns
    /\ \E why \in Rejections :
           response' = [success |-> FALSE, message |-> why]
    /\ runs' = runs + 1
    /\ UNCHANGED <<dir, roster, name_format, match_strategies, pc, word_files,
                   idx, results, lookups, success_count, renames, batches,
                   dir0, faulted>>

\* the response of a batch that found no *.docx and no *.doc file
NoWordFilesResponse == [success |-> FALSE, message |-> "NoWordFiles"]

\* rename_word_files up to the for loop: the roster is read, the folder is
\* listed, and an empty listing returns at once
StartBatch ==
    /\ pc = "idle"
    /\ runs < MaxRuns
    /\ runs' = runs + 1
    /\ dir0' = dir
    /\ renames' = 0
    /\ results' = <<>>
    /\ lookups' = <<>>
    /\ success_count' = 0
    /\ idx' = 1
    /\ \E listing \in Listings(dir) :
           /\ word_files' = listing
           /\ IF listing = <<>>
              THEN response' = NoWordFilesResponse /\ pc' = "idle"
              ELSE response' = NoResponse /\ pc' = "loop"
    /\ UNCHANGED <<dir, roster, name_format, match_strategies, batches,
                   faulted>>

\* mutant: a rename that raised is counted as well
CountAfterAttempts(count, outcome) ==
    IF outcome.status \in {"Success", "RenameFailed"} THEN count + 1 ELSE count

\* success_count after the iteration that appended outcome
CountAfter(count, outcome) ==
    IF outcome.status = "Success" THEN count + 1 ELSE count

\* mutant: the outer handler swallows the exception without an outcome
ResultsAfterSilentError(outcomes, outcome) ==
    IF outcome.status = "ProcessingError" THEN outcomes
    ELSE Append(outcomes, outcome)

\* results after the iteration: every path through the body of the loop
\* appends exactly one outcome
ResultsAfter(outcomes, outcome) == Append(outcomes, outcome)

\* mutant: the file is moved to the outcome's "new" whatever the status
DirAfterAnyStatus(d, outcome) ==
    Renamed(d, outcome.original, outcome.new)

\* the folder after the iteration that appended outcome
DirAfter(d, outcome) ==
    IF outcome.status = "Success"
    THEN Renamed(d, outcome.original, outcome.new)
    ELSE d

\* one iteration of the for loop
ProcessFile ==
    /\ pc = "loop"
    /\ idx <= Len(word_files)
    /\ \E look \in {Lookup(word_files[idx], roster)} :
        \E planned \in {Planned(dir, word_files[idx], look, roster, name_format)} :
        \E fault \in Faults(results, planned) :
        \E outcome \in {Outcome(planned, fault)} :
           /\ lookups' = Append(lookups, IF fault = "raise" THEN NoLookup ELSE look)
           /\ results' = ResultsAfter(results, outcome)
           /\ success_count' = CountAfter(success_count, outcome)
           /\ dir' = DirAfter(dir, outcome)
           /\ renames' = IF dir' # dir THEN renames + 1 ELSE renames
           /\ faulted' = (faulted \/ fault # "none")
    /\ idx' = idx + 1
    /\ UNCHANGED <<roster, name_format, match_strategies, pc, word_files,
                   response, runs, batches, dir0>>

\* the report returned after the loop
Report(outcomes, listing, count) ==
    [success |-> TRUE, message |-> "Done", results |-> outcomes,
     total |-> Len(listing), success_count |-> count]

ReturnReport ==
    /\ pc = "loop"
    /\ idx > Len(word_files)
    /\ response' = Report(results, word_files, success_count)
    /\ pc' = "idle"
    /\ batches' = batches + 1
    /\ UNCHANGED <<dir, roster, name_format, match_strategies, word_files, idx,
                   results, lookups, success_count, runs, renames, dir0,
                   faulted>>

Next ==
    \/ RequestRejected
    \/ StartBatch
    \/ ProcessFile
    \/ ReturnReport

Spec == Init /\ [][Next]_vars

(***************************************************************************)
(* The same program on folders of one file, with file names, rosters and   *)
(* strategy lists drawn widely: the specification of the claims about the  *)
(* extractor and the roster lookup.                                        *)
(***************************************************************************)
InitLookup ==
    /\ \E n \in LookupFiles : dir = [x \in {n} |-> 1]
    /\ roster \in LookupRosters
    /\ name_format \in LookupFormats
    /\ match_strategies \in StrategyLists
    /\ runs = MaxRuns - 1
    /\ Fresh

SpecLookup == InitLookup /\ [][Next]_vars

(***************************************************************************)
(* Properties                                                              *)
(***************************************************************************)
\* the last element of a non-empty sequence
Last(s) == s[Len(s)]

\* the step is one iteration of the for loop
IsIteration == pc = "loop" /\ idx' = idx + 1

\* the row of the roster the k-th iteration found
FoundStudent(k) == roster[lookups[k].row]

UnmatchedStatuses == {"NoNameExtracted", "NoStudentFound"}

\* C1, the frame of a batch: the folder holds as many names as when the
\* batch started, and the same files
C1_SameFiles ==
    /\ Cardinality(DOMAIN dir) = Cardinality(DOMAIN dir0)
    /\ {dir[n] : n \in DOMAIN dir} = {dir0[n] : n \in DOMAIN dir0}

\* C1, one step: the folder changes only in an iteration of the loop, and
\* then one file moves to a name that no file held; the name is the target
\* name if that was free, and otherwise the target name with (c) before
\* the extension, for the smallest c >= 1 whose name was free
C1_RenameStep ==
    dir' # dir =>
        LET old == word_files[idx]
            out == Last(results')
            student == roster[Last(lookups').row]
            suffix == PathSuffix(old)
            target == TargetFilename(student, name_format, suffix)
            Numbered(c) == NumberedFilename(student, name_format, suffix, c)
        IN  /\ IsIteration
            /\ out.status = "Success"
            /\ out.original = old
            /\ out.new \notin DOMAIN dir
            /\ IF target \in DOMAIN dir
               THEN \E c \in 1..(Cardinality(DOMAIN dir) + 1) :
                        /\ out.new = Numbered(c)
                        /\ \A b \in 1..(c - 1) : Numbered(b) \in DOMAIN dir
               ELSE out.new = target
            /\ DOMAIN dir' = (DOMAIN dir \ {old}) \cup {out.new}
            /\ dir'[out.new] = dir[old]
            /\ \A n \in DOMAIN dir \ {old} : dir'[n] = dir[n]

\* C1: in a batch run no rename targets a name another file holds; a
\* taken target name gets the suffix (1), (2), ... with the smallest free
\* counter; the folder keeps the number of its files and none is
\* overwritten
C1_NoOverwrite == []C1_SameFiles /\ [][C1_RenameStep]_vars

\* C1 witness: with the target name taken, one file of the batch was
\* renamed to "...(1).docx" and a later one to "...(2).docx"
C1_ThirdGetsTwo ==
    \E i, j \in 1..Len(results) :
        /\ i < j
        /\ results[i].status = "Success"
        /\ results[j].status = "Success"
        /\ results[i].new = NumberedFilename(R_wxm, S_shiyanjiu, S_docx, 1)
        /\ results[j].new = NumberedFilename(R_wxm, S_shiyanjiu, S_docx, 2)
        /\ TargetFilename(R_wxm, S_shiyanjiu, S_docx) \in DOMAIN dir

\* the names of the folder that Path.glob lists
IsWordFile(n) == EndsWith(n, S_docx) \/ EndsWith(n, S_doc)

\* C2: whatever fails for a file, the loop goes on: the outcomes so far
\* are one per file processed, in the order of the listing, the listing is
\* the Word files of the folder, and a report is returned only with one
\* outcome per listed file, total being their number
C2_OneOutcomePerFile ==
    /\ (pc = "loop" \/ response.success) =>
           /\ Len(word_files) = Cardinality({n \in DOMAIN dir0 : IsWordFile(n)})
           /\ {word_files[k] : k \in 1..Len(word_files)}
                  = {n \in DOMAIN dir0 : IsWordFile(n)}
    /\ pc = "loop" => Len(results) = idx - 1 /\ idx <= Len(word_files) + 1
    /\ \A k \in 1..Len(results) : results[k].original = word_files[k]
    /\ response.success =>
           /\ response.total = Len(word_files)
           /\ Len(response.results) = response.total
           /\ \A k \in 1..response.total :
                  response.results[k].original = word_files[k]

\* C2 witness: a report of three outcomes in which an iteration raised,
\* a later file was renamed, and another file was left unmatched
C2_ReportAfterFailure ==
    /\ response.success
    /\ response.total = 3
    /\ \E i, j, k \in 1..3 :
           /\ i < j
           /\ response.results[i].status \in FaultStatuses
           /\ response.results[j].status = "Success"
           /\ response.results[k].status \in UnmatchedStatuses

\* C3, one step: an iteration that finds a student whose target name
\* exists and is the very file it processes appends AlreadyCorrect and
\* leaves the folder as it is
C3_Step ==
    IsIteration =>
        LET old == word_files[idx]
            look == Last(lookups')
            student == roster[look.row]
            target == TargetFilename(student, name_format, PathSuffix(old))
        IN  (/\ look.row # 0
             /\ student.name # <<>>
             /\ student.id # <<>>
             /\ target \in DOMAIN dir
             /\ dir[target] = dir[old])
            => /\ Last(results').status = "AlreadyCorrect"
               /\ Last(results').new = NotProcessed
               /\ dir' = dir

\* C3: a file that already has its target name gets AlreadyCorrect and is
\* not renamed, in the first run and in every later one
C3_Idempotent == [][C3_Step]_vars

\* C3 witness: after a batch has returned, a later batch finds a file
\* already correct, and the folder is as that batch found it
C3_SecondRunAlreadyCorrect ==
    /\ batches >= 1
    /\ pc = "loop"
    /\ dir = dir0
    /\ \E k \in 1..Len(results) : results[k].status = "AlreadyCorrect"

(***************************************************************************)
(* C4: the order of the strategies                                         *)
(***************************************************************************)
\* the ID candidates of a file name, as the claim's matcher takes them: the
\* runs of digits of length 8 to 12, from position pos on
RECURSIVE IdCandidatesFrom(_, _)
IdCandidatesFrom(s, pos) ==
    IF pos > Len(s) THEN <<>>
    ELSE IF ~IsDigit(s[pos]) THEN IdCandidatesFrom(s, pos + 1)
    ELSE (IF RunEnd(s, pos, "digit") - pos \in 8..12
          THEN <<Slice(s, pos, RunEnd(s, pos, "digit"))>>
          ELSE <<>>) \o IdCandidatesFrom(s, RunEnd(s, pos, "digit"))

\* partial_id: the candidate is part of the record's id, or the id of it
PartialId(candidate, id) == Contains(id, candidate) \/ Contains(candidate, id)

\* the record partial_id returns for a file name: candidates in extraction
\* order, records in roster order, the first pair that matches; 0 if none
PartialIdRow(filename, df) ==
    LET candidates == IdCandidatesFrom(filename, 1)
        Rows(c) == {r \in 1..Len(df) : PartialId(candidates[c], df[r].id)}
        hits == {c \in 1..Len(candidates) : Rows(c) # {}}
    IN  IF hits = {} THEN 0 ELSE MinOf(Rows(MinOf(hits)))

\* the records whose name is the name extracted from the file
ExactNameRows(name, df) == {r \in 1..Len(df) : df[r].name = name}

\* C4, as claimed: when the caller's strategies are partial_id, exact_name
\* and the file matches one record by exact_name and another by
\* partial_id, the record found is the partial_id one
C4_CallerOrder ==
    \A k \in 1..Len(results) :
        LET byId == PartialIdRow(results[k].original, roster)
            byName == ExactNameRows(lookups[k].extracted, roster)
        IN  (/\ match_strategies = <<"partial_id", "exact_name">>
             /\ results[k].status # "ProcessingError"
             /\ lookups[k].extracted # None
             /\ byName # {}
             /\ byId # 0
             /\ byId \notin byName)
            => lookups[k].row = byId

(***************************************************************************)
(* C5: the folder without Word files                                       *)
(***************************************************************************)
\* the step answers a request that reached the listing of the folder
IsBatchStart ==
    pc = "idle" /\ runs' = runs + 1 /\ response'.message \notin Rejections

\* C5, as claimed, one step: a batch on a folder without *.docx and *.doc
\* files returns a report with success true, total 0, success_count 0 and
\* no outcomes
C5_Step ==
    (IsBatchStart /\ ~\E n \in DOMAIN dir : IsWordFile(n))
    => /\ response'.success
       /\ {"total", "success_count", "results"} \subseteq DOMAIN response'
       /\ response'.total = 0
       /\ response'.success_count = 0
       /\ response'.results = <<>>

\* C5, as claimed: every batch on a folder without Word files returns the
\* empty report, success true
C5_EmptyFolderReport == [][C5_Step]_vars

(***************************************************************************)
(* C6: the target name                                                     *)
(***************************************************************************)
\* "202441050610 王小明 实验（训）报告【电子版】-实验九.docx"
ExampleNewName ==
    <<50, 48, 50, 52, 52, 49, 48, 53, 48, 54, 49, 48, 32, 29579, 23567, 26126,
      32, 23454, 39564, 65288, 35757, 65289, 25253, 21578, 12304, 30005, 23376,
      29256, 12305, 45, 23454, 39564, 20061, 46, 100, 111, 99, 120>>

\* "202441050610 王小明 实验九.docx"
ExampleNameAsClaimed ==
    <<50, 48, 50, 52, 52, 49, 48, 53, 48, 54, 49, 48, 32, 29579, 23567, 26126,
      32, 23454, 39564, 20061, 46, 100, 111, 99, 120>>

\* the batch is the example's: the roster of 王小明, the folder of
\* "202441050610 王小明.docx", the template 实验九, and nothing raised
IsExample ==
    /\ roster = <<[name |-> S_wxm, id |-> S_id]>>
    /\ DOMAIN dir0 = {S_id \o <<32>> \o S_wxm \o S_docx}
    /\ name_format = S_shiyanjiu
    /\ Len(results) = 1
    /\ results[1].status \notin FaultStatuses

\* the extension of a file name: the part from its last dot on
ExtensionOf(name) ==
    LET dots == {i \in 2..(Len(name) - 1) : name[i] = 46}
    IN  IF dots = {} THEN <<>>
        ELSE SubSeq(name, CHOOSE i \in dots : \A j \in dots : j <= i, Len(name))

\* C6, as claimed: the new name of a renamed file is "{id} {name}
\* {template}", the extension of the file appended, sanitized; the example
\* is renamed to "202441050610 王小明 实验九.docx"
C6_NameWithoutInfix ==
    /\ \A k \in 1..Len(results) :
           results[k].status = "Success" =>
               results[k].new =
                   clean_filename(FoundStudent(k).id \o <<32>>
                       \o FoundStudent(k).name \o <<32>> \o name_format
                       \o ExtensionOf(results[k].original))
    /\ IsExample =>
           results[1].status = "Success" /\ results[1].new = ExampleNameAsClaimed

\* C6: the new name of a renamed file, when no other file holds it, is
\* "{id} {name} 实验（训）报告【电子版】-{template}", the extension of the
\* file appended, sanitized; the example is renamed to "202441050610 王小明
\* 实验（训）报告【电子版】-实验九.docx", status Success
C6_NameWithInfix ==
    /\ \A k \in 1..Len(results) :
           results[k].status = "Success" =>
               /\ lookups[k].row # 0
               /\ FoundStudent(k).id # <<>>
               /\ results[k].new =
                      clean_filename(FoundStudent(k).id \o <<32>>
                          \o FoundStudent(k).name
                          \o <<32, 23454, 39564, 65288, 35757, 65289, 25253,
                               21578, 12304, 30005, 23376, 29256, 12305, 45>>
                          \o name_format
                          \o ExtensionOf(results[k].original))
    /\ IsExample =>
           results[1].status = "Success" /\ results[1].new = ExampleNewName

\* C6 witness: the example has been renamed
C6_ExampleRenamed ==
    /\ IsExample
    /\ results[1].status = "Success"
    /\ ExampleNewName \in DOMAIN dir
    /\ Cardinality(DOMAIN dir) = 1

(***************************************************************************)
(* C7: the unmatched file                                                  *)
(***************************************************************************)
\* "随便乱写.docx" and the name the extractor takes from it
S_suibianluanxie == <<38543, 20415, 20081, 20889>>

\* no record of the roster has a name that is the candidate, a part of it,
\* or a string it is part of
NoRecordNear(name, df) ==
    \A r \in 1..Len(df) :
        /\ ~Contains(df[r].name, name)
        /\ ~Contains(name, df[r].name)

\* C7, as claimed: "随便乱写.docx" is Unmatched whatever the roster is
C7_UnmatchedForAnyRoster ==
    \A k \in 1..Len(results) :
        (/\ results[k].original = S_suibianluanxie \o S_docx
         /\ results[k].status # "ProcessingError")
        => results[k].status \in UnmatchedStatuses

\* C7, the example amended: "随便乱写.docx" is Unmatched for every roster
\* without a record whose name is 随便乱写, a part of it or a string it is
\* part of
C7_UnmatchedFarFromRoster ==
    \A k \in 1..Len(results) :
        (/\ results[k].original = S_suibianluanxie \o S_docx
         /\ results[k].status # "ProcessingError"
         /\ NoRecordNear(S_suibianluanxie, roster))
        => results[k].status = "NoStudentFound"

\* C7, one step: the iteration of an Unmatched file renames nothing; the
\* file keeps its name and the folder is as it was
C7_Step ==
    (IsIteration /\ Last(results').status \in UnmatchedStatuses)
    => /\ dir' = dir
       /\ word_files[idx] \in DOMAIN dir'
       /\ Last(results').original = word_files[idx]
       /\ Last(results').new = NotProcessed

\* C7: "随便乱写.docx" is Unmatched for every roster that has no record
\* near its name, and no Unmatched file is renamed
C7_UnmatchedNotRenamed == []C7_UnmatchedFarFromRoster /\ [][C7_Step]_vars

\* C7 witness: with a roster that is not empty, "随便乱写.docx" was left
\* Unmatched in a folder of several files, and is still there
C7_LuanxieLeftAlone ==
    /\ roster # <<>>
    /\ Len(word_files) >= 2
    /\ \E k \in 1..Len(results) :
           /\ results[k].original = S_suibianluanxie \o S_docx
           /\ results[k].status = "NoStudentFound"
    /\ S_suibianluanxie \o S_docx \in DOMAIN dir

(***************************************************************************)
(* C8: success_count                                                       *)
(***************************************************************************)
\* the number of outcomes of status Success in a list of outcomes
Successes(outcomes) ==
    Cardinality({k \in 1..Len(outcomes) : outcomes[k].status = "Success"})

\* C8: in the loop and in the report, success_count is the number of
\* Success outcomes, which is the number of renames the batch performed
C8_CountIsSuccesses ==
    /\ success_count = Successes(results)
    /\ success_count = renames
    /\ response.success =>
           /\ response.success_count = Successes(response.results)
           /\ response.success_count = renames

\* C8 witness: a report with a rename that failed, a rename that was
\* performed and a file already correct, success_count 1
C8_FailedRenameNotCounted ==
    /\ response.success
    /\ response.success_count = 1
    /\ \E i, j, k \in 1..Len(response.results) :
           /\ response.results[i].status = "RenameFailed"
           /\ response.results[j].status = "Success"
           /\ response.results[k].status = "AlreadyCorrect"

(***************************************************************************)
(* C9: the stop words                                                      *)
(***************************************************************************)
\* the stop-word terms: 级 班 实验 报告 课程 计算机 工程 专升本 电子版
StopTerms ==
    { <<32423>>, <<29677>>, <<23454, 39564>>, <<25253, 21578>>,
      <<35838, 31243>>, <<35745, 31639, 26426>>, <<24037, 31243>>,
      <<19987, 21319, 26412>>, <<30005, 23376, 29256>> }

\* C9, as claimed: the name extracted from a file is never a stop-word
\* term, and never a run of 2 to 4 characters that contains one
C9_NoStopWordExtracted ==
    \A k \in 1..Len(lookups) :
        LET name == lookups[k].extracted
        IN  name # None =>
                /\ name \notin StopTerms
                /\ Len(name) \in 2..4 =>
                        ~\E term \in StopTerms : Contains(name, term)

(***************************************************************************)
(* C10: the strategies are not interleaved                                 *)
(***************************************************************************)
\* r is the first element of the set rows of roster positions
IsFirstOf(r, rows) == r \in rows /\ \A q \in rows : r <= q

\* C10: the record found for an extracted name is the first record of
\* that name if there is one, even when an earlier record contains the
\* name or is part of it; otherwise the first record that contains the
\* name or is part of it; and when no record has the name, contains it, is
\* part of it or has its Chinese characters, no record is found
C10_ExactBeforeContainment ==
    \A k \in 1..Len(lookups) :
        LET name == lookups[k].extracted
            row == lookups[k].row
            equal == {r \in 1..Len(roster) : roster[r].name = name}
            near == {r \in 1..Len(roster) :
                        \/ Contains(roster[r].name, name)
                        \/ Contains(name, roster[r].name)}
            alike == {r \in 1..Len(roster) :
                        OnlyChinese(roster[r].name) = OnlyChinese(name)}
        IN  (results[k].status # "ProcessingError" /\ name # None) =>
                /\ equal # {} => IsFirstOf(row, equal)
                /\ (equal = {} /\ near # {}) => IsFirstOf(row, near)
                /\ (equal = {} /\ near = {} /\ alike = {}) => row = 0
                /\ row # 0 => row \in equal \cup near \cup alike

\* C10 witness: the roster is 王, then 王小; the name extracted is 王小,
\* and the second record is found
C10_SecondRecordFound ==
    /\ Len(roster) = 2
    /\ roster[1].name = <<29579>>
    /\ roster[2].name = <<29579, 23567>>
    /\ Len(lookups) = 1
    /\ lookups[1].extracted = <<29579, 23567>>
    /\ lookups[1].row = 2
    /\ results[1].status = "Success"

(***************************************************************************)
(* C11: a batch repeated                                                   *)
(***************************************************************************)
\* C11, as claimed, one step: after a batch in which nothing raised has
\* returned its report, an iteration of a later batch, with the same
\* roster and name format, renames nothing
C11_Step ==
    (IsIteration /\ batches >= 1 /\ ~faulted') => dir' = dir

\* C11, as claimed: a second batch on the folder a first batch left
\* performs no rename, also for the files the first batch gave a name
\* with (k)
C11_StableUnderRepetition == [][C11_Step]_vars

\* the second batch moves the file the first batch named "...(1).docx",
\* while another file holds the target name, to "...(2).docx"
C11_NumberedFileMovedAgain ==
    /\ batches >= 1
    /\ ~faulted
    /\ TargetFilename(R_wxm, S_shiyanjiu, S_docx) \in DOMAIN dir
    /\ \E k \in 1..Len(results) :
           /\ results[k].status = "Success"
           /\ results[k].original =
                  NumberedFilename(R_wxm, S_shiyanjiu, S_docx, 1)
           /\ results[k].new = NumberedFilename(R_wxm, S_shiyanjiu, S_docx, 2)

====
